---- MODULE Spec2Model ----
(***************************************************************************)
(* Appointment reconciliation pipeline of opair_data_engineering:            *)
(*   UpdateFinalSF.py  Step 1  LastAppointment query over appointments_stg   *)
(*                     pandas  df.replace("None", NaN)                       *)
(*                     Step 3  df.to_sql(staging, if_exists='replace')       *)
(*                     Step 5  MERGE INTO starfish_appointments              *)
(*                                                                           *)
(* Tables are modelled with SQL semantics: three-valued comparison (a        *)
(* comparison with NULL is never true), CONCAT reading NULL as the empty     *)
(* string, ORDER BY ... DESC placing NULL last.  The final table carries     *)
(* no constraint in the source, so it is a bag of rows.                      *)
(*                                                                           *)
(* Of the 36 columns the query selects, every one is copied by the MERGE     *)
(* in the same way (UPDATE SET and INSERT list all of them).  The model      *)
(* keeps the two key columns, the freshness column, appointment_type (one    *)
(* of the hashed business columns), appointment_location (one of the         *)
(* business columns the hash leaves out) and the two derived columns         *)
(* INTEGRATION_ID and Hash_DW.                                               *)
(*                                                                           *)
(* The other parts of the repository have a specification each, over         *)
(* variables of their own:                                                   *)
(*   SpecSel       the LastAppointment query as a function of its input      *)
(*   SpecKey       INTEGRATION_ID and Hash_DW of single rows                 *)
(*   SpecImproved  Improoved_Update_FinalSF.py (staging by append)           *)
(*   SpecText      the clipping of the two long text columns                 *)
(*   SpecImport    New_ImportAppointment.py (CSV files to appointments_stg)  *)
(*   SpecConc      two UpdateFinalSF.py processes on one database            *)
(*   SpecEtl       UG_Survey run_full_etl.py, run_full_etl_for_file          *)
(*   SpecLabels    UG_Survey etl_acadyear_labels.py                          *)
(*   SpecConfig    UG_Survey config.py, _expand_env_vars                      *)
(*   SpecLoad      UG_Survey truncate-and-reload loaders                      *)
(*   SpecMain      UG_Survey run_full_etl.py, main                            *)
(*   SpecUnpivot   UG_Survey etl_intern.py, transform_intern                  *)
(*   SpecOrder     two UpdateFinalSF.py runs in either order                  *)
(***************************************************************************)
EXTENDS Integers, Sequences, FiniteSets, Bags, TLC

VARIABLES
    pc,             \* position of the UpdateFinalSF run: "idle" | "staged"
    runs,           \* number of runs started so far
    staging_table,  \* staging_appointments: set of rows
    final_table,    \* starfish_appointments: bag of rows
    outcome,        \* how the last finished run ended: "none" | "success" | "error"
    applied,        \* history: the present staging contents were merged
                    \* successfully and the final table is as that merge left it
    source_table,   \* selector specification: contents of appointments_stg
    df,             \* selector specification: result of pd.read_sql(query)
    fetched,        \* selector specification: the query has run on source_table
    pair_in,        \* key specification: two rows of appointments_stg
    pair_out,       \* key specification: what the query derives from each of them
    staging_appointments, \* improved specification: the staging table, a bag of rows
    improved_df,    \* improved specification: the frame the last run read
    improved_runs,  \* improved specification: number of runs started so far
    improved_outcome, \* improved specification: how the last run ended
    text_in,         \* text specification: lengths of the two long text columns of one row
    text_out,        \* text specification: their lengths as written to the staging table
    text_warnings,   \* text specification: number of warnings the run logged
    text_script,     \* text specification: the script that staged the row
    imp_pc,          \* import specification: position of New_ImportAppointment
    imp_files,       \* import specification: number of appoint*.csv files in the directory
    imp_file,        \* import specification: the file being processed (0 before the first)
    imp_rows,        \* import specification: number of rows of the current file
    imp_index,       \* import specification: the row the loop is at
    imp_view,        \* import specification: appointments_stg as the open transaction sees it
    imp_committed,   \* import specification: appointments_stg as committed
    inserted_count,  \* import specification: the counter of the row loop
    imp_failed,      \* import specification: history, rows of the current file whose insert raised
    imp_reported,    \* import specification: counts printed after a commit, by file
    imp_archived,    \* import specification: files moved to the archive
    imp_errors,      \* import specification: files with a committed row in error_log
    run_pc,          \* concurrent specification: position of each started script
    run_frame,       \* concurrent specification: the frame each script wrote to staging
    run_merged,      \* concurrent specification: history, the staging contents each script merged
    etl_pc,          \* orchestrator specification: position of run_full_etl_for_file
    raw_exists,      \* orchestrator specification: raw_path.is_file()
    email_enabled,   \* orchestrator specification: settings email.enabled
    step_results,    \* orchestrator specification: the list step_results
    etl_rc,          \* orchestrator specification: the value returned
    etl_summary,     \* orchestrator specification: the Step Summary lines of the e-mail body
    etl_mail,        \* orchestrator specification: what became of the e-mail
    labels_table,    \* labels specification: ugs.tbl_ug_survey_acadyear_labels, a bag of rows
    labels_runs,     \* labels specification: number of runs started so far
    labels_outcome,  \* labels specification: how the last run ended
    labels_stage,    \* labels specification: the terms in tbl_stage_UG_Survey at the last run
    expand,          \* config specification: one call of _expand_env_vars: argument, environment, result
    load,            \* load specification: calls of one truncate-and-reload loader: stage, target table, arguments, outcome
    cli,             \* main specification: one invocation of run_full_etl: files on disk, --raw-file, files processed, exit status
    unpivot,         \* unpivot specification: one stage row and what transform_intern emits for it
    order            \* order specification: a target table, two staged batches and the target after the two runs in either order

\* variables of the UpdateFinalSF run and of its selector
mergeVars == <<pc, runs, staging_table, final_table, outcome, applied, source_table, df, fetched>>
\* variables of the derived columns INTEGRATION_ID and Hash_DW
keyVars == <<pair_in, pair_out>>

\* variables of the Improoved_Update_FinalSF run
improvedVars == <<staging_appointments, improved_df, improved_runs, improved_outcome>>
\* variables of the long text columns
textVars == <<text_in, text_out, text_warnings, text_script>>
\* variables of the New_ImportAppointment script
importVars == <<imp_pc, imp_files, imp_file, imp_rows, imp_index, imp_view, imp_committed, inserted_count, imp_failed, imp_reported, imp_archived, imp_errors>>
\* variables of two UpdateFinalSF scripts started side by side
concVars == <<run_pc, run_frame, run_merged>>
\* variables of run_full_etl_for_file
etlVars == <<etl_pc, raw_exists, email_enabled, step_results, etl_rc, etl_summary, etl_mail>>
\* variables of the academic-year labels ETL
labelsVars == <<labels_table, labels_runs, labels_outcome, labels_stage>>
\* variables of the UG_Survey settings loader
configVars == <<expand>>
\* the state of the load specification
loadVars == <<load>>
\* the state of the main specification
mainVars == <<cli>>
\* the state of the unpivot specification
unpivotVars == <<unpivot>>
\* the state of the order specification
orderVars == <<order>>
\* variables outside the UpdateFinalSF run and its selector
otherVars == <<keyVars, improvedVars, textVars, importVars, concVars, etlVars, labelsVars, configVars, loadVars, mainVars, unpivotVars, orderVars>>

vars == <<mergeVars, otherVars>>

\* the state of each part of the repository before it is started
MergeIdle ==
    /\ pc = "idle"
    /\ runs = 0
    /\ staging_table = {}
    /\ final_table = EmptyBag
    /\ outcome = "none"
    /\ applied = FALSE
    /\ source_table = {}
    /\ df = {}
    /\ fetched = FALSE

KeyIdle == pair_in = <<>> /\ pair_out = <<>>

ImprovedIdle ==
    /\ staging_appointments = EmptyBag
    /\ improved_df = {}
    /\ improved_runs = 0
    /\ improved_outcome = "none"

TextIdle ==
    /\ text_in = <<>>
    /\ text_out = <<>>
    /\ text_warnings = 0
    /\ text_script = "none"

ImportIdle ==
    /\ imp_pc = "idle"
    /\ imp_files = 0
    /\ imp_file = 0
    /\ imp_rows = 0
    /\ imp_index = 0
    /\ imp_view = {}
    /\ imp_committed = {}
    /\ inserted_count = 0
    /\ imp_failed = {}
    /\ imp_reported = <<>>
    /\ imp_archived = {}
    /\ imp_errors = {}

ConcIdle ==
    /\ run_pc = <<>>
    /\ run_frame = <<>>
    /\ run_merged = <<>>

EtlIdle ==
    /\ etl_pc = "idle"
    /\ raw_exists = FALSE
    /\ email_enabled = FALSE
    /\ step_results = <<>>
    /\ etl_rc = "none"
    /\ etl_summary = <<>>
    /\ etl_mail = "none"

LabelsIdle ==
    /\ labels_table = EmptyBag
    /\ labels_runs = 0
    /\ labels_outcome = "none"
    /\ labels_stage = {}

ConfigIdle ==
    /\ expand = <<>>

LoadIdle ==
    load = <<>>

MainIdle ==
    cli = <<>>

UnpivotIdle ==
    unpivot = <<>>

OrderIdle ==
    order = <<>>

\* every part but those named in G is idle
IdleExcept(G) ==
    /\ IF "merge" \in G THEN TRUE ELSE MergeIdle
    /\ IF "key" \in G THEN TRUE ELSE KeyIdle
    /\ IF "improved" \in G THEN TRUE ELSE ImprovedIdle
    /\ IF "text" \in G THEN TRUE ELSE TextIdle
    /\ IF "import" \in G THEN TRUE ELSE ImportIdle
    /\ IF "conc" \in G THEN TRUE ELSE ConcIdle
    /\ IF "etl" \in G THEN TRUE ELSE EtlIdle
    /\ IF "labels" \in G THEN TRUE ELSE LabelsIdle
    /\ IF "config" \in G THEN TRUE ELSE ConfigIdle
    /\ IF "load" \in G THEN TRUE ELSE LoadIdle
    /\ IF "main" \in G THEN TRUE ELSE MainIdle
    /\ IF "unpivot" \in G THEN TRUE ELSE UnpivotIdle
    /\ IF "order" \in G THEN TRUE ELSE OrderIdle

\* every part but those named in G is left alone
UnchangedExcept(G) ==
    /\ IF "merge" \in G THEN TRUE ELSE UNCHANGED mergeVars
    /\ IF "key" \in G THEN TRUE ELSE UNCHANGED keyVars
    /\ IF "improved" \in G THEN TRUE ELSE UNCHANGED improvedVars
    /\ IF "text" \in G THEN TRUE ELSE UNCHANGED textVars
    /\ IF "import" \in G THEN TRUE ELSE UNCHANGED importVars
    /\ IF "conc" \in G THEN TRUE ELSE UNCHANGED concVars
    /\ IF "etl" \in G THEN TRUE ELSE UNCHANGED etlVars
    /\ IF "labels" \in G THEN TRUE ELSE UNCHANGED labelsVars
    /\ IF "config" \in G THEN TRUE ELSE UNCHANGED configVars
    /\ IF "load" \in G THEN TRUE ELSE UNCHANGED loadVars
    /\ IF "main" \in G THEN TRUE ELSE UNCHANGED mainVars
    /\ IF "unpivot" \in G THEN TRUE ELSE UNCHANGED unpivotVars
    /\ IF "order" \in G THEN TRUE ELSE UNCHANGED orderVars

----------------------------------------------------------------------------
(* Bounds                                                                    *)

\* largest file_created_on value
MaxTime == 2
\* largest number of rows in appointments_stg
MaxBatch == 2
\* largest number of UpdateFinalSF runs in one behaviour
MaxRuns == 2
\* largest number of rows in one CSV file
MaxRows == 2
\* largest number of appoint*.csv files in the directory
MaxFiles == 2
\* longest settings string
MaxChars == 4
MaxFilled == 2

----------------------------------------------------------------------------
(* Values                                                                    *)

\* SQL NULL in a character column
NULL == "<NULL>"
\* SQL NULL in the datetime column file_created_on (get_file_creation_date
\* returns None when the file name's date does not parse)
NullTime == 0

Times == 1..MaxTime
TimesOrNull == Times \cup {NullTime}

\* (appointment_ext_id, participant_integration_id) as the import script
\* writes them: a missing CSV cell becomes the string 'None'.
SourceKeys == { <<"a1", "p1">>, <<"a1", "None">>, <<"None", "p1">> }

\* (appointment_type, appointment_location)
SourceContents == { <<"t1", "x">>, <<"t1", "y">>, <<"None", "x">> }

SourceRows ==
    { [ appointment_ext_id         |-> k[1],
        participant_integration_id |-> k[2],
        appointment_type           |-> c[1],
        appointment_location       |-> c[2],
        file_created_on            |-> t ] :
      k \in SourceKeys, c \in SourceContents, t \in TimesOrNull }

RECURSIVE BatchesUpTo(_)
BatchesUpTo(n) ==
    IF n = 0 THEN { {} }
    ELSE LET smaller == BatchesUpTo(n - 1)
         IN  smaller \cup { b \cup {r} : b \in smaller, r \in SourceRows }

\* every content appointments_stg may have, up to MaxBatch rows
Batches == BatchesUpTo(MaxBatch)

----------------------------------------------------------------------------
(* SQL primitives                                                            *)

\* a = b in SQL: unknown (not true) when either side is NULL
SqlEq(a, b) == a # NULL /\ b # NULL /\ a = b

\* a <> b in SQL: unknown (not true) when either side is NULL
SqlNe(a, b) == a # NULL /\ b # NULL /\ a # b

\* a > b on datetimes in SQL: unknown (not true) when either side is NULL
SqlGt(a, b) == a # NullTime /\ b # NullTime /\ a > b

\* ORDER BY file_created_on DESC: a sorts strictly before b.  SQL Server
\* treats NULL as the lowest value, so it comes last in descending order.
OrderedBefore(a, b) ==
    \/ a # NullTime /\ b = NullTime
    \/ a # NullTime /\ b # NullTime /\ a > b

\* CONCAT argument: NULL is read as the empty string
ConcatArg(s) == IF s = NULL THEN "" ELSE s

\* HASHBYTES('SHA2_256', s): a digest, taken to be collision-free
HASHBYTES(s) == <<"SHA2_256", s>>

----------------------------------------------------------------------------
(* Step 1: the LastAppointment query                                         *)

INTEGRATION_ID(r) ==
    ConcatArg(r.appointment_ext_id) \o "_" \o ConcatArg(r.participant_integration_id)

Hash_DW(r) ==
    HASHBYTES(ConcatArg(r.appointment_ext_id)
              \o ConcatArg(r.participant_integration_id)
              \o ConcatArg(r.appointment_type))

\* the SELECT list of the CTE applied to one row of appointments_stg
Project(r) ==
    [ INTEGRATION_ID             |-> INTEGRATION_ID(r),
      appointment_ext_id         |-> r.appointment_ext_id,
      participant_integration_id |-> r.participant_integration_id,
      appointment_type           |-> r.appointment_type,
      appointment_location       |-> r.appointment_location,
      File_Created_On            |-> r.file_created_on,
      Hash_DW                    |-> Hash_DW(r) ]

\* FROM appointments_stg WHERE appointment_ext_id <> 'None'
WhereValid(batch) == { r \in batch : SqlNe(r.appointment_ext_id, "None") }

\* the PARTITION BY columns of a row
PartitionKey(r) == <<r.appointment_ext_id, r.participant_integration_id>>

\* rows of the batch in the partition of key k
Partition(batch, k) == { r \in WhereValid(batch) : PartitionKey(r) = k }

\* faulty variant of RowNumOne: ORDER BY file_created_on ASC
RowNumOneAscending(batch, k) ==
    { r \in Partition(batch, k) :
        \A q \in Partition(batch, k) :
            ~OrderedBefore(r.file_created_on, q.file_created_on) }

\* rows ROW_NUMBER() may number 1 in partition k: no row of the partition
\* sorts strictly before them.  Among several such rows the ORDER BY names
\* no further column, so the server may number any one of them 1.
RowNumOne(batch, k) ==
    { r \in Partition(batch, k) :
        \A q \in Partition(batch, k) :
            ~OrderedBefore(q.file_created_on, r.file_created_on) }

\* every result SELECT * FROM LastAppointment WHERE row_num = 1 may return
LastAppointment(batch) ==
    LET keys == { PartitionKey(r) : r \in WhereValid(batch) }
        picks == { f \in [keys -> WhereValid(batch)] :
                     \A k \in keys : f[k] \in RowNumOne(batch, k) }
    IN  { { Project(f[k]) : k \in keys } : f \in picks }

\* every frame pd.read_sql(query) may return, over every content of
\* appointments_stg
Frames == UNION { LastAppointment(batch) : batch \in Batches }

----------------------------------------------------------------------------
(* pandas: df.replace("None", np.nan)                                        *)

ReplaceNoneValue(v) == IF v = "None" THEN NULL ELSE v

\* every cell equal to the string "None" becomes NaN (NULL once written);
\* datetime and binary cells are left alone
ReplaceNoneRow(r) ==
    [ INTEGRATION_ID             |-> ReplaceNoneValue(r.INTEGRATION_ID),
      appointment_ext_id         |-> ReplaceNoneValue(r.appointment_ext_id),
      participant_integration_id |-> ReplaceNoneValue(r.participant_integration_id),
      appointment_type           |-> ReplaceNoneValue(r.appointment_type),
      appointment_location       |-> ReplaceNoneValue(r.appointment_location),
      File_Created_On            |-> r.File_Created_On,
      Hash_DW                    |-> r.Hash_DW ]

ReplaceNone(frame) == { ReplaceNoneRow(r) : r \in frame }

----------------------------------------------------------------------------
(* Step 4: the MERGE statement                                               *)

\* ON target.appointment_ext_id = source.appointment_ext_id
\* AND target.participant_integration_id = source.participant_integration_id
MergeOn(t, s) ==
    /\ SqlEq(t.appointment_ext_id, s.appointment_ext_id)
    /\ SqlEq(t.participant_integration_id, s.participant_integration_id)

\* faulty variant of WhenMatched: >= in place of >
WhenMatchedOrEqual(t, s) ==
    /\ MergeOn(t, s)
    /\ s.File_Created_On # NullTime /\ t.File_Created_On # NullTime
    /\ s.File_Created_On >= t.File_Created_On

\* WHEN MATCHED AND source.File_Created_On > target.File_Created_On
WhenMatched(t, s) == MergeOn(t, s) /\ SqlGt(s.File_Created_On, t.File_Created_On)

\* UPDATE SET target.<column> = source.<column> for every column
UpdateSet(t, s) == s

\* source rows that update target row t
Updaters(t, staged) == { s \in staged : WhenMatched(t, s) }

\* the statement raises when one target row would be updated more than once
MergeRaises(target, staged) ==
    \E t \in BagToSet(target) : Cardinality(Updaters(t, staged)) > 1

\* target row t after the WHEN MATCHED branch
Updated(t, staged) ==
    IF Updaters(t, staged) = {} THEN t
    ELSE UpdateSet(t, CHOOSE s \in Updaters(t, staged) : TRUE)

\* WHEN NOT MATCHED (by target): source rows that join no target row
WhenNotMatched(target, staged) ==
    { s \in staged : \A t \in BagToSet(target) : ~MergeOn(t, s) }

\* faulty variant of InsertValues: File_Created_On left out of the column list
InsertValuesWithoutFreshness(s) == [s EXCEPT !.File_Created_On = NullTime]

\* INSERT (<columns>) VALUES (source.<columns>): the row written for s
InsertValues(s) == s

RECURSIVE SumCopies(_, _)
SumCopies(B, rows) ==
    IF rows = {} THEN 0
    ELSE LET r == CHOOSE x \in rows : TRUE
         IN  B[r] + SumCopies(B, rows \ {r})

\* faulty variant of MergeResult: WHEN NOT MATCHED BY SOURCE THEN DELETE added
MergeResultDeleting(target, staged) ==
    LET old == { t \in BagToSet(target) : \E s \in staged : MergeOn(t, s) }
        img == { Updated(t, staged) : t \in old }
        kept == [ u \in img |->
                    SumCopies(target, { t \in old : Updated(t, staged) = u }) ]
    IN  kept (+) SetToBag({ InsertValues(s) : s \in WhenNotMatched(target, staged) })

\* the final table after a MERGE that commits
MergeResult(target, staged) ==
    LET old == BagToSet(target)
        img == { Updated(t, staged) : t \in old }
        kept == [ u \in img |->
                    SumCopies(target, { t \in old : Updated(t, staged) = u }) ]
    IN  kept (+) SetToBag({ InsertValues(s) : s \in WhenNotMatched(target, staged) })

----------------------------------------------------------------------------
(* The UpdateFinalSF run                                                     *)

Init == IdleExcept({})

\* Steps 1 to 3: query appointments_stg (whatever it holds now), replace
\* "None", and write the frame to the staging table with if_exists='replace'
FetchAndStage ==
    /\ pc = "idle"
    /\ runs < MaxRuns
    /\ \E frame \in Frames :
         /\ staging_table' = ReplaceNone(frame)
         /\ applied' = (applied /\ ReplaceNone(frame) = staging_table)
    /\ runs' = runs + 1
    /\ pc' = "staged"
    /\ outcome' = "none"
    /\ UNCHANGED <<final_table, source_table, df, fetched, otherVars>>

\* Step 5: conn.execute(merge_query); conn.commit(); print("Final table
\* updated successfully.")
ExecuteMerge ==
    /\ pc = "staged"
    /\ ~MergeRaises(final_table, staging_table)
    /\ final_table' = MergeResult(final_table, staging_table)
    /\ outcome' = "success"
    /\ applied' = TRUE
    /\ pc' = "idle"
    /\ UNCHANGED <<runs, staging_table, source_table, df, fetched, otherVars>>

\* faulty variant of RolledBack: the inserts stay committed when the statement raises
InsertsCommitted(target, staged) ==
    target (+) SetToBag({ InsertValues(s) : s \in WhenNotMatched(target, staged) })

\* the final table when conn.execute(merge_query) raises: the statement is
\* atomic and the with-block is left before conn.commit()
RolledBack(target, staged) == target

\* Step 5 raises (the statement is rejected, the connection is lost, ...)
\* and the script ends with the exception
MergeFails ==
    /\ pc = "staged"
    /\ final_table' = RolledBack(final_table, staging_table)
    /\ outcome' = "error"
    /\ pc' = "idle"
    /\ UNCHANGED <<runs, staging_table, applied, source_table, df, fetched, otherVars>>

Next == FetchAndStage \/ ExecuteMerge \/ MergeFails

Spec == Init /\ [][Next]_vars

----------------------------------------------------------------------------
(* The selector alone: the query of Step 1 as a function of the contents of  *)
(* appointments_stg, run any number of times over the same contents          *)

InitSel ==
    /\ IdleExcept({"merge"})
    /\ pc = "idle"
    /\ runs = 0
    /\ staging_table = {}
    /\ final_table = EmptyBag
    /\ outcome = "none"
    /\ applied = FALSE
    /\ source_table \in Batches
    /\ df = {}
    /\ fetched = FALSE

\* df = pd.read_sql(query, engine)
ReadSql ==
    /\ df' \in LastAppointment(source_table)
    /\ fetched' = TRUE
    /\ UNCHANGED <<pc, runs, staging_table, final_table, outcome, applied, source_table, otherVars>>

NextSel == ReadSql

SpecSel == InitSel /\ [][NextSel]_vars

----------------------------------------------------------------------------
(* The derived columns alone: INTEGRATION_ID and Hash_DW as functions of     *)
(* one row of appointments_stg, with all six hashed columns present and      *)
(* identifiers that may contain the separator character                      *)

\* SQL NULL in a datetime column (a NaT cell of the import)
NullDate == <<>>

\* datetime values, at minute resolution: <<date, time of day>>
Dates == { <<"Jan  1 2024", "9:00AM">>, <<"Jan  1 2024", "9:30AM">> }

\* implicit conversion of a BIT argument of CONCAT
BitToVarchar(b) == IF b THEN "1" ELSE "0"

\* implicit conversion of a DATETIME argument of CONCAT (default style
\* "mon dd yyyy hh:miAM"); NULL is read as the empty string
DatetimeToVarchar(d) == IF d = NullDate THEN "" ELSE d[1] \o " " \o d[2]

\* rows of appointments_stg, reduced to the six hashed columns and one
\* column the hash leaves out
KeyRows ==
    { [ appointment_ext_id         |-> e,
        participant_integration_id |-> p,
        appointment_type           |-> t,
        scheduled                  |-> b,
        appointment_start_date     |-> sd,
        appointment_end_date       |-> ed,
        appointment_location       |-> l ] :
      e \in {"a", "a_"}, p \in {"b", "_b"}, t \in {"t1", "t2"},
      b \in BOOLEAN, sd \in Dates, ed \in {<<"Jan  1 2024", "9:30AM">>, NullDate},
      l \in {"x", "y"} }

\* the argument of HASHBYTES: CONCAT of the six columns, no separator
HashConcat(r) ==
    ConcatArg(r.appointment_ext_id)
    \o ConcatArg(r.participant_integration_id)
    \o ConcatArg(r.appointment_type)
    \o BitToVarchar(r.scheduled)
    \o DatetimeToVarchar(r.appointment_start_date)
    \o DatetimeToVarchar(r.appointment_end_date)

\* the derived columns of one row
Derived(r) ==
    [ INTEGRATION_ID |-> INTEGRATION_ID(r),
      hash_input     |-> HashConcat(r),
      Hash_DW        |-> HASHBYTES(HashConcat(r)) ]

InitKey ==
    /\ IdleExcept({"key"})
    /\ pair_in \in KeyRows \X KeyRows
    /\ pair_out = <<>>

\* the SELECT list evaluated on both rows
SelectDerived ==
    /\ pair_out' = <<Derived(pair_in[1]), Derived(pair_in[2])>>
    /\ UNCHANGED pair_in
    /\ UnchangedExcept({"key"})

NextKey == SelectDerived

SpecKey == InitKey /\ [][NextKey]_vars

----------------------------------------------------------------------------
(* The Improoved_Update_FinalSF run: the same query (without the pandas      *)
(* replacement of "None"), written to the staging table with                 *)
(* if_exists='append'; the script has no MERGE step                          *)

InitImproved == IdleExcept({"improved"}) /\ ImprovedIdle

\* df = pd.read_sql(query, conn); df.to_sql('staging_appointments',
\* if_exists='append')
ImprovedRun ==
    /\ improved_runs < MaxRuns
    /\ \E frame \in Frames :
         /\ improved_df' = frame
         /\ staging_appointments' = staging_appointments (+) SetToBag(frame)
    /\ improved_runs' = improved_runs + 1
    /\ improved_outcome' = "success"
    /\ UnchangedExcept({"improved"})

\* to_sql raises: the insert is rolled back, the error is logged and raised
ImprovedRunFails ==
    /\ improved_runs < MaxRuns
    /\ \E frame \in Frames : improved_df' = frame
    /\ improved_runs' = improved_runs + 1
    /\ improved_outcome' = "error"
    /\ UNCHANGED staging_appointments
    /\ UnchangedExcept({"improved"})

NextImproved == ImprovedRun \/ ImprovedRunFails

SpecImproved == InitImproved /\ [][NextImproved]_vars

----------------------------------------------------------------------------
(* The long text columns appointment_description and appointment_comment     *)
(* of one selected row, on their way to the staging table in each of the     *)
(* two scripts.  A text is represented by its length: LEFT and a Python      *)
(* slice [:n] both keep the first characters and drop the rest.              *)

\* the length both scripts clip to
MaxLength == 2000
\* SQL NULL / Python None in a text column
NullText == -1

TextLengths == {NullText, 0, MaxLength - 1, MaxLength, MaxLength + 1, 2 * MaxLength}

TextColumns == {"appointment_description", "appointment_comment"}

\* LEFT(s, n)
LEFT(s, n) == IF s = NullText THEN NullText ELSE IF s > n THEN n ELSE s

\* truncate_column(value, max_length): the value returned and whether
\* logging.warning was called
truncate_column(value, max_length) ==
    IF value # NullText /\ value > max_length
    THEN [ value |-> max_length, warned |-> TRUE ]
    ELSE [ value |-> value, warned |-> FALSE ]

InitText ==
    /\ IdleExcept({"text"})
    /\ text_in \in [TextColumns -> TextLengths]
    /\ text_out = <<>>
    /\ text_warnings = 0
    /\ text_script = "none"

\* Improoved_Update_FinalSF: LEFT(..., 2000) in the query, then
\* truncate_column on both columns of the frame, then to_sql
StageTextImproved ==
    /\ text_script = "none"
    /\ LET selected == [ c \in TextColumns |-> LEFT(text_in[c], MaxLength) ]
           applied_t == [ c \in TextColumns |-> truncate_column(selected[c], MaxLength) ]
       IN  /\ text_out' = [ c \in TextColumns |-> applied_t[c].value ]
           /\ text_warnings' = Cardinality({ c \in TextColumns : applied_t[c].warned })
    /\ text_script' = "Improoved_Update_FinalSF"
    /\ UNCHANGED text_in
    /\ UnchangedExcept({"text"})

\* UpdateFinalSF: both columns are selected and written as they are
StageTextUpdateFinalSF ==
    /\ text_script = "none"
    /\ text_out' = text_in
    /\ text_warnings' = 0
    /\ text_script' = "UpdateFinalSF"
    /\ UNCHANGED text_in
    /\ UnchangedExcept({"text"})

NextText == StageTextImproved \/ StageTextUpdateFinalSF

SpecText == InitText /\ [][NextText]_vars

----------------------------------------------------------------------------
(* New_ImportAppointment: for each appoint*.csv file, truncate               *)
(* appointments_stg, insert the rows one by one, commit, archive the file.   *)
(* A row of the table is <<file, row index>>.  The connection is not in      *)
(* autocommit mode: statements change imp_view, conn.commit() copies it to   *)
(* imp_committed.  An INSERT that raises leaves the open transaction as it   *)
(* was.                                                                      *)

\* a row left in appointments_stg by an earlier start of the script
OldRow == <<0, 1>>

InitImport ==
    /\ IdleExcept({"import"})
    /\ imp_pc = "next"
    /\ imp_files \in 1..MaxFiles
    /\ imp_file = 0
    /\ imp_rows = 0
    /\ imp_index = 0
    /\ imp_view \in { {}, {OldRow} }
    /\ imp_committed = imp_view
    /\ inserted_count = 0
    /\ imp_failed = {}
    /\ imp_reported = <<>>
    /\ imp_archived = {}
    /\ imp_errors = {}

\* faulty variant of InsertedCount: the counter is advanced before execute
CountedBeforeExecute(count, raised) == count + 1

\* inserted_count after cursor.execute(insert_query, ...) returned or raised
InsertedCount(count, raised) == IF raised THEN count ELSE count + 1

\* lines 164-185: read and preprocess the file, TRUNCATE TABLE,
\* inserted_count = 0
OpenFile ==
    /\ imp_pc = "next"
    /\ imp_file < imp_files
    /\ imp_file' = imp_file + 1
    /\ imp_rows' \in 0..MaxRows
    /\ imp_view' = {}
    /\ inserted_count' = 0
    /\ imp_index' = 1
    /\ imp_failed' = {}
    /\ imp_pc' = "inserting"
    /\ UNCHANGED <<imp_files, imp_committed, imp_reported, imp_archived, imp_errors>>
    /\ UnchangedExcept({"import"})

\* lines 164-183 raise (the file cannot be read, TRUNCATE is rejected)
OpenFileRaises ==
    /\ imp_pc = "next"
    /\ imp_file < imp_files
    /\ imp_file' = imp_file + 1
    /\ imp_rows' = 0
    /\ imp_index' = 0
    /\ imp_failed' = {}
    /\ imp_pc' = "except"
    /\ UNCHANGED <<imp_files, imp_view, imp_committed, inserted_count, imp_reported, imp_archived, imp_errors>>
    /\ UnchangedExcept({"import"})

\* faulty variant of AfterInsert: no try around the INSERT, the exception
\* reaches the handler of the file
AfterInsertUncaught(raised) == IF raised THEN "except" ELSE "inserting"

\* where the script goes on after cursor.execute(insert_query, ...) returned
\* or raised: the try of lines 188-197 catches the exception and the row
\* loop continues
AfterInsert(raised) == "inserting"

\* lines 187-197, one turn of the row loop: the INSERT succeeds, or it
\* raises and the exception is printed
InsertRow ==
    /\ imp_pc = "inserting"
    /\ imp_index <= imp_rows
    /\ \E raised \in BOOLEAN :
         /\ imp_view' = IF raised THEN imp_view ELSE imp_view \cup {<<imp_file, imp_index>>}
         /\ inserted_count' = InsertedCount(inserted_count, raised)
         /\ imp_failed' = IF raised THEN imp_failed \cup {imp_index} ELSE imp_failed
         /\ imp_pc' = AfterInsert(raised)
    /\ imp_index' = imp_index + 1
    /\ UNCHANGED <<imp_files, imp_file, imp_rows, imp_committed, imp_reported, imp_archived, imp_errors>>
    /\ UnchangedExcept({"import"})

\* lines 199-200: conn.commit() and the message with inserted_count
Commit ==
    /\ imp_pc = "inserting"
    /\ imp_index > imp_rows
    /\ imp_committed' = imp_view
    /\ imp_reported' = Append(imp_reported, <<imp_file, inserted_count>>)
    /\ imp_pc' = "archiving"
    /\ UNCHANGED <<imp_files, imp_file, imp_rows, imp_index, imp_view, inserted_count, imp_failed, imp_archived, imp_errors>>
    /\ UnchangedExcept({"import"})

\* line 199 raises
CommitRaises ==
    /\ imp_pc = "inserting"
    /\ imp_index > imp_rows
    /\ imp_pc' = "except"
    /\ UNCHANGED <<imp_files, imp_file, imp_rows, imp_index, imp_view, imp_committed, inserted_count, imp_failed, imp_reported, imp_archived, imp_errors>>
    /\ UnchangedExcept({"import"})

\* lines 203-205: shutil.move(file_path, archive_path)
Archive ==
    /\ imp_pc = "archiving"
    /\ imp_archived' = imp_archived \cup {imp_file}
    /\ imp_pc' = "next"
    /\ UNCHANGED <<imp_files, imp_file, imp_rows, imp_index, imp_view, imp_committed, inserted_count, imp_failed, imp_reported, imp_errors>>
    /\ UnchangedExcept({"import"})

\* line 204 raises
ArchiveRaises ==
    /\ imp_pc = "archiving"
    /\ imp_pc' = "except"
    /\ UNCHANGED <<imp_files, imp_file, imp_rows, imp_index, imp_view, imp_committed, inserted_count, imp_failed, imp_reported, imp_archived, imp_errors>>
    /\ UnchangedExcept({"import"})

\* lines 207-222: insert into error_log and conn.commit(), which commits
\* whatever the transaction holds
LogError ==
    /\ imp_pc = "except"
    /\ imp_errors' = imp_errors \cup {imp_file}
    /\ imp_committed' = imp_view
    /\ imp_pc' = "next"
    /\ UNCHANGED <<imp_files, imp_file, imp_rows, imp_index, imp_view, inserted_count, imp_failed, imp_reported, imp_archived>>
    /\ UnchangedExcept({"import"})

\* lines 221-222 raise: the script ends with the exception and the open
\* transaction is rolled back
LogErrorRaises ==
    /\ imp_pc = "except"
    /\ imp_view' = imp_committed
    /\ imp_pc' = "crashed"
    /\ UNCHANGED <<imp_files, imp_file, imp_rows, imp_index, imp_committed, inserted_count, imp_failed, imp_reported, imp_archived, imp_errors>>
    /\ UnchangedExcept({"import"})

\* lines 225-226: the directory listing is exhausted, conn.close()
CloseConnection ==
    /\ imp_pc = "next"
    /\ imp_file = imp_files
    /\ imp_pc' = "done"
    /\ UNCHANGED <<imp_files, imp_file, imp_rows, imp_index, imp_view, imp_committed, inserted_count, imp_failed, imp_reported, imp_archived, imp_errors>>
    /\ UnchangedExcept({"import"})

NextImport ==
    \/ OpenFile \/ OpenFileRaises \/ InsertRow \/ Commit \/ CommitRaises
    \/ Archive \/ ArchiveRaises \/ LogError \/ LogErrorRaises \/ CloseConnection

SpecImport == InitImport /\ [][NextImport]_vars

----------------------------------------------------------------------------
(* Two UpdateFinalSF scripts started side by side on the same database.      *)
(* Each is the sequence of FetchAndStage and ExecuteMerge above, on the      *)
(* shared tables staging_appointments and starfish_appointments.  The        *)
(* script takes no lock and opens no transaction around Steps 3 to 5.        *)

Scripts == {"first", "second"}

InitConc ==
    /\ IdleExcept({"conc"})
    /\ run_pc = [ i \in Scripts |-> "idle" ]
    /\ run_frame = [ i \in Scripts |-> {} ]
    /\ run_merged = [ i \in Scripts |-> {} ]

\* Steps 1 to 3 of script i
ScriptStages(i) ==
    /\ run_pc[i] = "idle"
    /\ \E frame \in Frames :
         /\ staging_table' = ReplaceNone(frame)
         /\ run_frame' = [run_frame EXCEPT ![i] = ReplaceNone(frame)]
    /\ run_pc' = [run_pc EXCEPT ![i] = "staged"]
    /\ UNCHANGED <<pc, runs, final_table, outcome, applied, source_table, df, fetched, run_merged>>
    /\ UnchangedExcept({"merge", "conc"})

\* Step 5 of script i
ScriptMerges(i) ==
    /\ run_pc[i] = "staged"
    /\ ~MergeRaises(final_table, staging_table)
    /\ final_table' = MergeResult(final_table, staging_table)
    /\ run_merged' = [run_merged EXCEPT ![i] = staging_table]
    /\ run_pc' = [run_pc EXCEPT ![i] = "merged"]
    /\ UNCHANGED <<pc, runs, staging_table, outcome, applied, source_table, df, fetched, run_frame>>
    /\ UnchangedExcept({"merge", "conc"})

\* Step 5 of script i raises
ScriptMergeFails(i) ==
    /\ run_pc[i] = "staged"
    /\ final_table' = RolledBack(final_table, staging_table)
    /\ run_pc' = [run_pc EXCEPT ![i] = "failed"]
    /\ UNCHANGED <<pc, runs, staging_table, outcome, applied, source_table, df, fetched, run_frame, run_merged>>
    /\ UnchangedExcept({"merge", "conc"})

NextConc ==
    \E i \in Scripts : ScriptStages(i) \/ ScriptMerges(i) \/ ScriptMergeFails(i)

SpecConc == InitConc /\ [][NextConc]_vars

----------------------------------------------------------------------------
(* UG_Survey orchestrator: run_full_etl_for_file runs the steps of           *)
(* build_steps as subprocesses, stops at the first one that is not ok,       *)
(* sends the e-mail summary and returns 0 or 1                               *)

\* build_steps(raw_file): the step names, in order
build_steps ==
    << "Validate stage schema",
       "Load reference tables",
       "Load raw UG survey file -> tbl_stage_raw_survey",
       "Transform stage_raw -> tbl_stage_UG_Survey",
       "ETL: ugs.tbl_ug_survey_response",
       "ETL: ugs.tbl_ug_survey_conn_to_psu",
       "ETL: ugs.tbl_ug_survey_acadyear_labels",
       "ETL: ugs.tbl_ug_survey_empl_job_lrned",
       "ETL: ugs.tbl_ug_survey_intern",
       "ETL: ugs.tbl_ug_survey_intern_lrned",
       "ETL: ugs.tbl_ug_survey_intl_exp",
       "ETL: ugs.tbl_ug_survey_stud_attr" >>

\* what subprocess.run may do: raise, or return a process with a return code
ProcessOutcomes ==
    { [ raised |-> TRUE, returncode |-> 0 ] }
    \cup { [ raised |-> FALSE, returncode |-> rc ] : rc \in {0, 1} }

\* run_step(name, cmd): the result dictionary
run_step(name, proc) ==
    IF proc.raised
    THEN [ name |-> name, returncode |-> "None", ok |-> FALSE, exception |-> TRUE ]
    ELSE [ name |-> name, returncode |-> proc.returncode,
           ok |-> (proc.returncode = 0), exception |-> FALSE ]

\* faulty variant of StopAfter: the loop has no break
StopNever(res) == FALSE

\* the loop of run_full_etl_for_file leaves after result res
StopAfter(res) == ~res.ok

\* the loop over steps_to_run has ended
LoopEnded ==
    \/ Len(step_results) = Len(build_steps)
    \/ step_results # <<>> /\ StopAfter(step_results[Len(step_results)])

\* the "Step Summary:" lines of send_email_summary
StepSummary(steps) ==
    [ i \in 1..Len(steps) |->
        [ name |-> steps[i].name,
          step_status |-> IF steps[i].ok THEN "OK" ELSE "FAILED",
          rc |-> steps[i].returncode ] ]

InitEtl ==
    /\ IdleExcept({"etl"})
    /\ etl_pc = "start"
    /\ raw_exists \in BOOLEAN
    /\ email_enabled \in BOOLEAN
    /\ step_results = <<>>
    /\ etl_rc = "none"
    /\ etl_summary = <<>>
    /\ etl_mail = "none"

\* lines 299-301: the raw file does not exist
RawFileMissing ==
    /\ etl_pc = "start"
    /\ ~raw_exists
    /\ etl_rc' = 1
    /\ etl_pc' = "returned"
    /\ UNCHANGED <<raw_exists, email_enabled, step_results, etl_summary, etl_mail>>
    /\ UnchangedExcept({"etl"})

\* lines 303-314: survey type and term are detected, the steps are built
StartSteps ==
    /\ etl_pc = "start"
    /\ raw_exists
    /\ etl_pc' = "steps"
    /\ UNCHANGED <<raw_exists, email_enabled, step_results, etl_rc, etl_summary, etl_mail>>
    /\ UnchangedExcept({"etl"})

\* line 304: detect_survey_type cannot read the file and raises
DetectRaises ==
    /\ etl_pc = "start"
    /\ raw_exists
    /\ etl_pc' = "raised"
    /\ UNCHANGED <<raw_exists, email_enabled, step_results, etl_rc, etl_summary, etl_mail>>
    /\ UnchangedExcept({"etl"})

\* lines 316-321, one turn of the loop: run the next step, append its result
RunStep ==
    /\ etl_pc = "steps"
    /\ ~LoopEnded
    /\ \E proc \in ProcessOutcomes :
         step_results' =
             Append(step_results, run_step(build_steps[Len(step_results) + 1], proc))
    /\ UNCHANGED <<etl_pc, raw_exists, email_enabled, etl_rc, etl_summary, etl_mail>>
    /\ UnchangedExcept({"etl"})

\* line 324 with lines 166-174: e-mail is disabled, nothing is composed
SummaryDisabled ==
    /\ etl_pc = "steps"
    /\ LoopEnded
    /\ ~email_enabled
    /\ etl_mail' = "disabled"
    /\ etl_pc' = "summarised"
    /\ UNCHANGED <<raw_exists, email_enabled, step_results, etl_rc, etl_summary>>
    /\ UnchangedExcept({"etl"})

\* line 324 with lines 166-239: the body is composed and given to SMTP,
\* which delivers it or fails (the failure is logged)
SendEmailSummary ==
    /\ etl_pc = "steps"
    /\ LoopEnded
    /\ email_enabled
    /\ etl_summary' = StepSummary(step_results)
    /\ etl_mail' \in {"sent", "failed"}
    /\ etl_pc' = "summarised"
    /\ UNCHANGED <<raw_exists, email_enabled, step_results, etl_rc>>
    /\ UnchangedExcept({"etl"})

\* lines 326-331
ReturnStatus ==
    /\ etl_pc = "summarised"
    /\ etl_rc' = IF \E i \in 1..Len(step_results) : ~step_results[i].ok THEN 1 ELSE 0
    /\ etl_pc' = "returned"
    /\ UNCHANGED <<raw_exists, email_enabled, step_results, etl_summary, etl_mail>>
    /\ UnchangedExcept({"etl"})

NextEtl ==
    \/ RawFileMissing \/ StartSteps \/ DetectRaises \/ RunStep
    \/ SummaryDisabled \/ SendEmailSummary \/ ReturnStatus

SpecEtl == InitEtl /\ [][NextEtl]_vars

----------------------------------------------------------------------------
(* UG_Survey academic-year labels: build_tbl_ug_survey_acadyear_labels       *)
(* reads the distinct terms of the stage table, compares them as strings     *)
(* with the terms of the labels table, converts the new ones to integers     *)
(* and inserts one row for each.  A term string is a sequence of             *)
(* characters.  The source declares no constraint on the labels table, so    *)
(* it is a bag of rows.                                                      *)

DecimalDigits == <<"0", "1", "2", "3", "4", "5", "6", "7", "8", "9">>

IsDigit(c) == \E d \in 1..10 : DecimalDigits[d] = c

DigitValue(c) == (CHOOSE d \in 1..10 : DecimalDigits[d] = c) - 1

\* str.strip()
RECURSIVE strip(_)
strip(s) ==
    IF s = <<>> THEN s
    ELSE IF Head(s) = " " THEN strip(Tail(s))
    ELSE IF s[Len(s)] = " " THEN strip(SubSeq(s, 1, Len(s) - 1))
    ELSE s

\* int(s) raises ValueError
ValueError(s) == s = <<>> \/ \E i \in 1..Len(s) : ~IsDigit(s[i])

\* int(s) for a string of decimal digits
RECURSIVE int(_)
int(s) ==
    IF s = <<>> THEN 0
    ELSE 10 * int(SubSeq(s, 1, Len(s) - 1)) + DigitValue(s[Len(s)])

\* str(n) for a natural number
RECURSIVE str(_)
str(n) ==
    IF n < 10 THEN <<DecimalDigits[n + 1]>>
    ELSE str(n \div 10) \o <<DecimalDigits[(n % 10) + 1]>>

\* values of the column term of tbl_stage_UG_Survey
TermValues ==
    { <<"2", "2", "3", "5">>, <<"0", "2", "2", "3", "5">>, <<"2", "2", "4", "1">>,
      <<"F", "A">>, <<" ">> }

_derive_acad_year(term_int) ==
    LET year_code == term_int \div 10
        term_digit == term_int % 10
        base == IF term_digit = 1 THEN year_code - 200 - 1 ELSE year_code - 200
    IN  2000 + base

\* the row transform_term_labels appends for an integer term
LabelRow(term_int) ==
    [ term |-> term_int,
      acad_year |-> _derive_acad_year(term_int),
      report_label |-> str(_derive_acad_year(term_int)) ]

\* extract_terms: SELECT DISTINCT term ... WHERE LTRIM(RTRIM(term)) <> '',
\* then the set of trimmed strings
stage_terms(stage) == { strip(t) : t \in { u \in stage : strip(u) # <<>> } }

\* the terms of the labels table as trimmed strings
existing_terms(table) == { strip(str(r.term)) : r \in BagToSet(table) }

\* transform_term_labels: non-numeric terms are skipped, one row per
\* integer term is kept
transform_term_labels(terms) ==
    { LabelRow(int(t)) : t \in { u \in terms : ~ValueError(u) } }

\* new_terms = sorted(stage_terms - existing_terms)
new_terms(stage, existing) == stage_terms(stage) \ existing

\* the labels table the documentation describes: one row for each term
CanonicalLabels == SetToBag({ LabelRow(2235) })

InitLabels ==
    /\ IdleExcept({"labels"})
    /\ labels_table \in {EmptyBag, CanonicalLabels}
    /\ labels_runs = 0
    /\ labels_outcome = "none"
    /\ labels_stage = {}

\* build_tbl_ug_survey_acadyear_labels(dry_run) over some stage contents;
\* the SELECT of the existing terms succeeds
BuildLabels ==
    /\ labels_runs < MaxRuns
    /\ \E stage \in SUBSET TermValues, dry_run \in BOOLEAN :
         LET out_df == transform_term_labels(new_terms(stage, existing_terms(labels_table)))
         IN  /\ labels_stage' = stage
             /\ labels_table' = IF dry_run THEN labels_table
                                ELSE labels_table (+) SetToBag(out_df)
             /\ labels_outcome' = IF dry_run THEN "dry run" ELSE "loaded"
    /\ labels_runs' = labels_runs + 1
    /\ UnchangedExcept({"labels"})

\* the same when the SELECT of the existing terms raises: lines 257-263
\* log a warning and take the table to be empty
BuildLabelsReadRaises ==
    /\ labels_runs < MaxRuns
    /\ \E stage \in SUBSET TermValues, dry_run \in BOOLEAN :
         LET out_df == transform_term_labels(new_terms(stage, {}))
         IN  /\ labels_stage' = stage
             /\ labels_table' = IF dry_run THEN labels_table
                                ELSE labels_table (+) SetToBag(out_df)
             /\ labels_outcome' = IF dry_run THEN "dry run" ELSE "loaded blind"
    /\ labels_runs' = labels_runs + 1
    /\ UnchangedExcept({"labels"})

\* executemany or commit raises: nothing is committed
BuildLabelsFails ==
    /\ labels_runs < MaxRuns
    /\ labels_stage' \in SUBSET TermValues
    /\ labels_outcome' = "error"
    /\ labels_runs' = labels_runs + 1
    /\ UNCHANGED labels_table
    /\ UnchangedExcept({"labels"})

NextLabels == BuildLabels \/ BuildLabelsReadRaises \/ BuildLabelsFails

SpecLabels == InitLabels /\ [][NextLabels]_vars

----------------------------------------------------------------------------
(* UG_Survey config.py: _expand_env_vars.  A string is a sequence of        *)
(* characters; a settings value is tagged with its Python type.            *)

SettingsAlphabet == {"$", "{", "}", "A"}

RECURSIVE StringsUpTo(_)
StringsUpTo(n) ==
    IF n = 0 THEN { <<>> }
    ELSE LET shorter == StringsUpTo(n - 1)
         IN  shorter \cup { Append(t, c) : t \in shorter, c \in SettingsAlphabet }

SettingsStrings == StringsUpTo(MaxChars)

\* os.environ: variable A is set to "x", or no variable is set
Environments == { <<>>, [ n \in { <<"A">> } |-> <<"x">> ] }

PyStr(chars) == [ kind |-> "str", v |-> chars ]
PyInt(n) == [ kind |-> "int", v |-> n ]
PyList(items) == [ kind |-> "list", v |-> items ]
PyDict(items) == [ kind |-> "dict", v |-> items ]

\* composite and scalar values yaml.safe_load may return besides strings
SettingsValues ==
    << PyInt(25),
       PyList(<<PyStr(<<"$", "{", "A", "}">>), PyInt(25)>>),
       PyDict([ k \in {"url"} |-> PyStr(<<"A", "$", "{", "A", "}">>) ]),
       PyDict([ k \in {"email"} |-> PyList(<<PyStr(<<"$", "{", "A", "}">>)>>) ]) >>

\* os.getenv(name, default)
getenv(environ, name, default) ==
    IF name \in DOMAIN environ THEN environ[name] ELSE default

\* s.find("}", start): least position from start on holding "}", 0 for none
\* (positions count from 1)
FindClose(t, start) ==
    LET hits == { j \in start..Len(t) : t[j] = "}" }
    IN  IF hits = {} THEN 0 ELSE CHOOSE j \in hits : \A k \in hits : j <= k

\* the while loop of lines 21-35, from position i with out so far
RECURSIVE ExpandFrom(_, _, _, _)
ExpandFrom(t, i, out, environ) ==
    IF i > Len(t) THEN out
    ELSE IF t[i] = "$" /\ i + 1 <= Len(t) /\ t[i + 1] = "{"
         THEN LET end == FindClose(t, i + 2)
              IN  IF end = 0
                  THEN ExpandFrom(t, i + 1, Append(out, t[i]), environ)
                  ELSE ExpandFrom(t, end + 1,
                                  out \o getenv(environ, SubSeq(t, i + 2, end - 1), <<>>),
                                  environ)
         ELSE ExpandFrom(t, i + 1, Append(out, t[i]), environ)

RECURSIVE _expand_env_vars(_, _)
_expand_env_vars(value, environ) ==
    IF value.kind = "str" THEN PyStr(ExpandFrom(value.v, 1, <<>>, environ))
    ELSE IF value.kind = "dict"
         THEN PyDict([ k \in DOMAIN value.v |-> _expand_env_vars(value.v[k], environ) ])
    ELSE IF value.kind = "list"
         THEN PyList([ k \in DOMAIN value.v |-> _expand_env_vars(value.v[k], environ) ])
    ELSE value

InitConfig ==
    /\ IdleExcept({"config"})
    /\ \E environ \in Environments :
         \/ \E t \in SettingsStrings :
              expand = [ value |-> PyStr(t), environ |-> environ, result |-> <<>> ]
         \/ \E i \in DOMAIN SettingsValues :
              expand = [ value |-> SettingsValues[i], environ |-> environ,
                         result |-> <<>> ]

\* cfg = _expand_env_vars(raw)
ExpandSettings ==
    /\ expand.result = <<>>
    /\ expand' = [expand EXCEPT !.result = <<_expand_env_vars(expand.value, expand.environ)>>]
    /\ UnchangedExcept({"config"})

NextConfig == ExpandSettings

SpecConfig == InitConfig /\ [][NextConfig]_vars

----------------------------------------------------------------------------
(* UG_Survey truncate-and-reload loaders: build_tbl_ug_survey_intern,       *)
(* _intern_lrned, _intl_exp, _empl_job_lrned, _stud_attr, _conn_to_psu.     *)
(* A stage row is a key and whether the loader's transform yields an output *)
(* row for it; the target table is a bag of output rows.                    *)

Loaders ==
    {"intern", "intern_lrned", "intl_exp", "empl_job_lrned", "stud_attr", "conn_to_psu"}

\* loaders that truncate in a transaction of its own (with engine.begin())
\* and insert afterwards over engine.raw_connection()
OwnTransactionTruncate == {"intern", "intern_lrned", "intl_exp", "empl_job_lrned"}

\* loaders with a truncate_before_load parameter; the others always truncate
HasTruncateParameter == {"intern", "intern_lrned", "intl_exp", "stud_attr"}

\* loaders that return when the stage extract is empty
ReturnsOnEmptyStage == Loaders \ {"conn_to_psu"}

\* loaders that return when the transform produced no rows
ReturnsOnEmptyTransform == OwnTransactionTruncate

StageRows == [ key : 1..MaxRows, kept : BOOLEAN ]

\* rows left in the target table by earlier loads
TargetKeys == 0..MaxRows

\* out_df: the output rows of the loader's transform
transform(stage) == { r.key : r \in { q \in stage : q.kept } }

\* the call gets past its early returns and the dry-run return to the load
ReachesLoadIgnoringDryRun(loader, stage, dry_run) ==
    /\ ~(loader \in ReturnsOnEmptyStage /\ stage = {})
    /\ ~(loader \in ReturnsOnEmptyTransform /\ transform(stage) = {})

ReachesLoad(loader, stage, dry_run) ==
    /\ ~(loader \in ReturnsOnEmptyStage /\ stage = {})
    /\ ~(loader \in ReturnsOnEmptyTransform /\ transform(stage) = {})
    /\ ~dry_run

\* the target table after the optional TRUNCATE TABLE
Truncated(loader, target, truncate_before_load) ==
    IF loader \notin HasTruncateParameter \/ truncate_before_load
    THEN EmptyBag
    ELSE target

InitLoad ==
    /\ IdleExcept({"load"})
    /\ \E loader \in Loaders, stage \in SUBSET StageRows, old \in SUBSET TargetKeys :
         load = [ loader |-> loader, stage |-> stage, target |-> SetToBag(old),
                  before |-> SetToBag(old), dry_run |-> FALSE,
                  truncate_before_load |-> TRUE, outcome |-> "none", runs |-> 0 ]

\* build_tbl_ug_survey_*(truncate_before_load, dry_run) returns
BuildTable ==
    /\ load.runs < MaxRuns
    /\ \E dry_run \in BOOLEAN, truncate_before_load \in BOOLEAN :
         load' = [ load EXCEPT
                     !.before = load.target,
                     !.target =
                         IF ReachesLoad(load.loader, load.stage, dry_run)
                         THEN Truncated(load.loader, load.target, truncate_before_load)
                              (+) SetToBag(transform(load.stage))
                         ELSE load.target,
                     !.dry_run = dry_run,
                     !.truncate_before_load = truncate_before_load,
                     !.outcome = "returned",
                     !.runs = load.runs + 1 ]
    /\ UnchangedExcept({"load"})

\* the bulk insert (cursor.executemany or DataFrame.to_sql) raises: the
\* inserts are rolled back; the TRUNCATE is rolled back with them only where
\* it ran in the same transaction
BuildTableInsertRaises ==
    /\ load.runs < MaxRuns
    /\ \E truncate_before_load \in BOOLEAN :
         /\ ReachesLoad(load.loader, load.stage, FALSE)
         /\ load' = [ load EXCEPT
                        !.before = load.target,
                        !.target =
                            IF load.loader \in OwnTransactionTruncate
                            THEN Truncated(load.loader, load.target, truncate_before_load)
                            ELSE load.target,
                        !.dry_run = FALSE,
                        !.truncate_before_load = truncate_before_load,
                        !.outcome = "raised",
                        !.runs = load.runs + 1 ]
    /\ UnchangedExcept({"load"})

NextLoad == BuildTable \/ BuildTableInsertRaises

SpecLoad == InitLoad /\ [][NextLoad]_vars

----------------------------------------------------------------------------
(* UG_Survey run_full_etl.py: main.  A file is a directory, a name prefix    *)
(* and a number (the extension is always .csv); in a pattern the number 0   *)
(* stands for the wildcard *.                                                *)

IncomingDir == "F:/Dat/UGSurvey"

\* files on disk, in the incoming directory and elsewhere
FileNames ==
    [ dir : {IncomingDir, "D:/Other"}, prefix : {"UGSurveyData_", "Survey_"},
      n : 1..MaxFiles ]

Wildcard == 0

\* values of --raw-file: a path or a glob pattern
Patterns ==
    [ dir : {IncomingDir, "D:/Other"}, prefix : {"UGSurveyData_", "Survey_"},
      n : {Wildcard} \cup (1..MaxFiles) ]

\* glob.glob(pattern) over the files on disk
glob(pattern, files) ==
    { f \in files : /\ f.dir = pattern.dir
                    /\ f.prefix = pattern.prefix
                    /\ (pattern.n = Wildcard \/ f.n = pattern.n) }

\* pattern = incoming_dir / "UGSurveyData_*.csv"
IncomingPattern == [ dir |-> IncomingDir, prefix |-> "UGSurveyData_", n |-> Wildcard ]

InitMain ==
    /\ IdleExcept({"main"})
    /\ \E files \in { S \in SUBSET FileNames : Cardinality(S) <= MaxFiles },
          raw_file \in Patterns :
         cli = [ files |-> files, raw_file |-> raw_file, processed |-> {},
                 rc |-> -1 ]

\* load_settings raises: FATAL, return 1
MainSettingsRaise ==
    /\ cli.rc = -1
    /\ cli' = [ cli EXCEPT !.rc = 1 ]
    /\ UnchangedExcept({"main"})

\* main() with the settings loaded; rc of run_full_etl_for_file is 0 or 1
Main ==
    /\ cli.rc = -1
    /\ LET matched_files == glob(IncomingPattern, cli.files)
       IN  IF matched_files = {}
           THEN cli' = [ cli EXCEPT !.rc = 0 ]
           ELSE IF Cardinality(matched_files) > 1
                THEN cli' = [ cli EXCEPT !.rc = 1 ]
                ELSE \E overall_rc \in {0, 1} :
                       cli' = [ cli EXCEPT !.processed = matched_files,
                                           !.rc = overall_rc ]
    /\ UnchangedExcept({"main"})

NextMain == MainSettingsRaise \/ Main

SpecMain == InitMain /\ [][NextMain]_vars

----------------------------------------------------------------------------
(* UG_Survey etl_intern.py: extract_stage and transform_intern on one stage  *)
(* row.  A column name is the sequence of its parts; a value is None or a   *)
(* string.                                                                   *)

PyNone == [ kind |-> "none", v |-> <<>> ]

Slots == 1..3

\* the per-internship columns of the SELECT of extract_stage
ExtractedFields ==
    {"organization", "country", "state", "province", "unit", "title", "exp",
     "paid", "paid_amt", "college_credit", "semesters"}

\* intern_<field><i>, as the SELECT names the column
ExtractColumn(field, i) == <<"intern_", field, DecimalDigits[i + 1]>>

ExtractColumns == { ExtractColumn(field, i) : field \in ExtractedFields, i \in Slots }

\* the name under which transform_intern reads the field of slot i:
\* f"intern{i}_<field>" for organization, unit, title, paid and paid_amt,
\* f"intern_<field>{i}" for the others
ReadColumn(field, i) ==
    IF field \in {"organization", "unit", "title", "paid", "paid_amt"}
    THEN <<"intern", DecimalDigits[i + 1], "_" \o field>>
    ELSE <<"intern_", field, DecimalDigits[i + 1]>>

\* row.get(column): None for a column the row does not have
RowGet(row, column) ==
    IF column \in DOMAIN row THEN row[column] ELSE PyNone

\* key_fields of slot i
key_fields(row, i) ==
    { RowGet(row, ReadColumn(field, i)) :
        field \in {"organization", "title", "unit", "paid", "paid_amt", "country",
                   "state", "province", "college_credit", "semesters"} }

\* pd.isna(x) if not isinstance(x, str) else x.strip() == ""
IsEmptyField(x) ==
    IF x.kind = "str" THEN strip(x.v) = <<>> ELSE x.kind = "none"

\* the intern_numb values of the records transform_intern appends for a row
transform_intern(count, row) ==
    IF count <= 0 THEN {}
    ELSE { i \in Slots : /\ ~(count < i)
                         /\ ~(\A x \in key_fields(row, i) : IsEmptyField(x)) }

\* texts a stage column may hold
FieldTexts == { PyStr(<<"x">>), PyStr(<<" ">>) }

RECURSIVE ColumnSetsUpTo(_)
ColumnSetsUpTo(n) ==
    IF n = 0 THEN { {} }
    ELSE LET smaller == ColumnSetsUpTo(n - 1)
         IN  smaller \cup { S \cup {c} : S \in smaller, c \in ExtractColumns }

\* stage rows as extract_stage returns them: intern_count an integer, the
\* columns NULL except for a few
InitUnpivot ==
    /\ IdleExcept({"unpivot"})
    /\ \E count \in 0..4, filled \in ColumnSetsUpTo(MaxFilled) :
         \E texts \in [ filled -> FieldTexts ] :
            unpivot = [ count |-> count,
                        row |-> [ c \in ExtractColumns |->
                                    IF c \in filled THEN texts[c] ELSE PyNone ],
                        out |-> <<>> ]

\* out_df = transform_intern(stage_df)
TransformIntern ==
    /\ unpivot.out = <<>>
    /\ unpivot' = [ unpivot EXCEPT !.out = <<transform_intern(unpivot.count, unpivot.row)>> ]
    /\ UnchangedExcept({"unpivot"})

NextUnpivot == TransformIntern

SpecUnpivot == InitUnpivot /\ [][NextUnpivot]_vars

----------------------------------------------------------------------------
(* Two UpdateFinalSF runs in either order: the run as a function of the      *)
(* target table and the staged batch                                         *)

\* the staged batches of runs over a stage table of at most one record
StagedBatches ==
    { ReplaceNone(frame) : frame \in UNION { LastAppointment(batch) : batch \in BatchesUpTo(1) } }

\* target tables: empty, or left by one run on the empty table
TargetTables == { MergeResult(EmptyBag, staged) : staged \in StagedBatches }

\* a run that commits: Steps 3 to 5 with the staged batch
Run(target, staged) == MergeResult(target, staged)

InitOrder ==
    /\ IdleExcept({"order"})
    /\ \E target \in TargetTables, A \in StagedBatches, B \in StagedBatches :
         order = [ target |-> target, A |-> A, B |-> B, AB |-> <<>>, BA |-> <<>> ]

\* the run for A then the run for B
RunAThenB ==
    /\ order.AB = <<>>
    /\ ~MergeRaises(order.target, order.A)
    /\ ~MergeRaises(Run(order.target, order.A), order.B)
    /\ order' = [ order EXCEPT !.AB = <<Run(Run(order.target, order.A), order.B)>> ]
    /\ UnchangedExcept({"order"})

\* the run for B then the run for A
RunBThenA ==
    /\ order.BA = <<>>
    /\ ~MergeRaises(order.target, order.B)
    /\ ~MergeRaises(Run(order.target, order.B), order.A)
    /\ order' = [ order EXCEPT !.BA = <<Run(Run(order.target, order.B), order.A)>> ]
    /\ UnchangedExcept({"order"})

NextOrder == RunAThenB \/ RunBThenA

SpecOrder == InitOrder /\ [][NextOrder]_vars

----------------------------------------------------------------------------
(* Vocabulary of the properties.  These restate what the specification       *)
(* means by its terms; they do not use the operators of the model above.     *)

\* the entity key of a staged or target row, NULL being a value like any other
EntityKey(r) == <<r.appointment_ext_id, r.participant_integration_id>>

\* the distinct rows of the final table
TargetRows == BagToSet(final_table)

\* staged freshness s strictly newer than target freshness t
StrictlyNewer(s, t) == s # NullTime /\ t # NullTime /\ s > t

\* staged freshness s older than or equal to target freshness t
NotNewer(s, t) == s # NullTime /\ t # NullTime /\ s <= t

\* freshness u is lower than freshness t (NULL is lower than any timestamp)
Lower(u, t) == t # NullTime /\ (u = NullTime \/ u < t)

\* a step in which the MERGE of the run commits
MergeCommits == pc = "staged" /\ outcome' = "success"

\* C1: after any sequence of runs the final table holds at most one row per
\* entity key (appointment_ext_id, participant_integration_id / INTEGRATION_ID)
C1_AtMostOneRowPerKey ==
    \A t \in TargetRows :
        /\ CopiesIn(t, final_table) = 1
        /\ \A u \in TargetRows :
              (EntityKey(u) = EntityKey(t) \/ u.INTEGRATION_ID = t.INTEGRATION_ID)
                  => u = t

\* C2: a run that merges the same staged batch as the run before it, against
\* the final table that run left, leaves the final table as it is
C2_Idempotent ==
    [][ (MergeCommits /\ applied) => final_table' = final_table ]_vars

\* the entity keys of the records of appointments_stg that pass the validity
\* predicate of the selector (appointment_ext_id is not the sentinel)
ValidKeys ==
    { <<r.appointment_ext_id, r.participant_integration_id>> :
        r \in { q \in source_table : q.appointment_ext_id # "None" } }

\* the records of appointments_stg with entity key k
RecordsOf(k) ==
    { r \in source_table :
        <<r.appointment_ext_id, r.participant_integration_id>> = k }

\* C3: the selector outputs exactly one record per distinct valid entity key,
\* that record is one of the batch's records with the key, and its
\* file_created_on is the maximum among them
C3_LatestWins ==
    fetched =>
        /\ \A d \in df : EntityKey(d) \in ValidKeys
        /\ \A k \in ValidKeys :
              /\ Cardinality({ d \in df : EntityKey(d) = k }) = 1
              /\ \A d \in df :
                    EntityKey(d) = k =>
                        /\ \E r \in RecordsOf(k) :
                              /\ r.file_created_on = d.File_Created_On
                              /\ r.appointment_type = d.appointment_type
                              /\ r.appointment_location = d.appointment_location
                        /\ \A r \in RecordsOf(k) :
                              ~Lower(d.File_Created_On, r.file_created_on)

\* C3 witness: a key with records of different file_created_on was selected
C3_Witness ==
    /\ fetched
    /\ \E r \in source_table, q \in source_table :
          /\ r.appointment_ext_id # "None"
          /\ <<r.appointment_ext_id, r.participant_integration_id>>
               = <<q.appointment_ext_id, q.participant_integration_id>>
          /\ Lower(r.file_created_on, q.file_created_on)
          /\ r.file_created_on # NullTime
          /\ \E d \in df :
                /\ EntityKey(d) = <<q.appointment_ext_id, q.participant_integration_id>>
                /\ d.File_Created_On = q.file_created_on

\* C4: a repeated run of the selector over the same contents of
\* appointments_stg (every record carrying a timestamp) returns the same
\* records as the run before, also when records of a key share the maximum
C4_TieBreakDeterministic ==
    [][ (fetched /\ \A r \in source_table : r.file_created_on # NullTime)
          => df' = df ]_vars

\* C5: when the MERGE commits, every entity key present in the staged batch
\* and in the final table with a strictly newer staged File_Created_On has
\* its final-table row equal to the staged record in every column
C5_UpdatePath ==
    [][ MergeCommits =>
          \A s \in staging_table : \A t \in TargetRows :
              (EntityKey(t) = EntityKey(s)
                 /\ StrictlyNewer(s.File_Created_On, t.File_Created_On))
              => \A u \in BagToSet(final_table') :
                    EntityKey(u) = EntityKey(s) => u = s ]_vars

\* C6: a final-table row whose staged record is older than or as old as it
\* is left as it is by the run, in every column
C6_NoOpOnStale ==
    [][ pc = "staged" =>
          \A t \in TargetRows :
              (\E s \in staging_table :
                  /\ EntityKey(s) = EntityKey(t)
                  /\ NotNewer(s.File_Created_On, t.File_Created_On))
              => CopiesIn(t, final_table') >= CopiesIn(t, final_table) ]_vars

\* C6 witness: a committed run staged a record as old as the row of its key
\* with a different content, and the row is still there
C6_Witness ==
    /\ pc = "idle"
    /\ outcome = "success"
    /\ \E s \in staging_table : \E t \in TargetRows :
          /\ EntityKey(s) = EntityKey(t)
          /\ s.participant_integration_id # NULL
          /\ s.File_Created_On = t.File_Created_On
          /\ s.File_Created_On # NullTime
          /\ s.appointment_location # t.appointment_location

\* C7: when the MERGE commits, every staged entity key absent from the final
\* table has exactly one row in it afterwards, equal to the staged record
\* (business columns, Hash_DW and File_Created_On)
C7_InsertPath ==
    [][ MergeCommits =>
          \A s \in staging_table :
              (\A t \in TargetRows : EntityKey(t) # EntityKey(s))
              => /\ CopiesIn(s, final_table') = 1
                 /\ \A u \in BagToSet(final_table') :
                       EntityKey(u) = EntityKey(s) => u = s ]_vars

\* C7 witness: the first run committed and inserted two staged records
C7_Witness ==
    /\ pc = "idle"
    /\ outcome = "success"
    /\ runs = 1
    /\ Cardinality(staging_table) = 2
    /\ \A s \in staging_table : CopiesIn(s, final_table) = 1

\* C8: no run writes, for an entity key, a row with a lower File_Created_On
\* than a row the final table already holds for that key
C8_FreshnessNeverDecreases ==
    [][ \A u \in BagToSet(final_table') :
          CopiesIn(u, final_table') > CopiesIn(u, final_table)
          => \A t \in TargetRows :
                EntityKey(t) = EntityKey(u)
                => ~Lower(u.File_Created_On, t.File_Created_On) ]_vars

\* every staged record has been applied to the table `new` made from `old`:
\* inserted when no row of old joins it, written over each row of old that
\* joins it and is strictly older
FullyApplied(old, new, staged) ==
    \A s \in staged :
        LET joined == { t \in BagToSet(old) :
                          /\ s.appointment_ext_id # NULL
                          /\ s.participant_integration_id # NULL
                          /\ t.appointment_ext_id = s.appointment_ext_id
                          /\ t.participant_integration_id = s.participant_integration_id }
        IN  IF joined = {}
            THEN CopiesIn(s, new) >= 1
            ELSE \A t \in joined :
                    StrictlyNewer(s.File_Created_On, t.File_Created_On)
                    => /\ CopiesIn(s, new) >= 1
                       /\ (t # s => CopiesIn(t, new) = 0)

\* C9: the merge step either fails and leaves the final table in its pre-run
\* state, or commits with every staged record applied
C9_Atomic ==
    [][ pc = "staged" =>
          \/ outcome' = "error" /\ final_table' = final_table
          \/ outcome' = "success"
               /\ FullyApplied(final_table, final_table', staging_table) ]_vars

\* C9 witness: a run failed in the merge with a record to insert, and the
\* final table holds no row of that record's key
C9_Witness ==
    /\ pc = "idle"
    /\ outcome = "error"
    /\ TargetRows # {}
    /\ \E s \in staging_table :
          \A t \in TargetRows : EntityKey(t) # EntityKey(s)

\* C10: a step neither changes nor removes a final-table row whose entity key
\* is absent from the staged batch, and no entity key leaves the final table
C10_Frame ==
    [][ /\ \A t \in TargetRows :
              (\A s \in staging_table : EntityKey(s) # EntityKey(t))
              => CopiesIn(t, final_table') = CopiesIn(t, final_table)
        /\ \A t \in TargetRows :
              \E u \in BagToSet(final_table') : EntityKey(u) = EntityKey(t) ]_vars

\* C10 witness: a committed run merged a batch without the key of a row the
\* final table holds
C10_Witness ==
    /\ pc = "idle"
    /\ outcome = "success"
    /\ staging_table # {}
    /\ \E t \in TargetRows :
          \A s \in staging_table : EntityKey(s) # EntityKey(t)

----------------------------------------------------------------------------
(* Fingerprint and entity-key identity                                       *)

\* the six columns the fingerprint is computed over agree on r1 and r2
SameFingerprintFields(r1, r2) ==
    /\ r1.appointment_ext_id = r2.appointment_ext_id
    /\ r1.participant_integration_id = r2.participant_integration_id
    /\ r1.appointment_type = r2.appointment_type
    /\ r1.scheduled = r2.scheduled
    /\ r1.appointment_start_date = r2.appointment_start_date
    /\ r1.appointment_end_date = r2.appointment_end_date

\* C11: two staged records have the same fingerprint input (the
\* concatenation hashed into Hash_DW) exactly when their six
\* fingerprint columns are equal.
C11_FingerprintDeterminism ==
    pair_out # <<>> =>
        ( (pair_out[1].hash_input = pair_out[2].hash_input)
          <=> SameFingerprintFields(pair_in[1], pair_in[2]) )

\* C12: two records get the same INTEGRATION_ID exactly when they have the
\* same (appointment_ext_id, participant_integration_id) pair.
C12_IntegrationIdIdentity ==
    pair_out # <<>> =>
        ( (pair_out[1].INTEGRATION_ID = pair_out[2].INTEGRATION_ID)
          <=> EntityKey(pair_in[1]) = EntityKey(pair_in[2]) )

----------------------------------------------------------------------------
(* Malformed keys                                                            *)

\* neither component of the entity key is missing or the sentinel 'None'
WellFormedKey(k) == \A i \in 1..2 : k[i] \notin {"None", NULL}

\* C13: no record whose entity key has a missing or 'None' component
\* appears in the selector output, and every key that is well formed has
\* a record in it.
C13_MalformedKeyExcluded ==
    fetched =>
        /\ \A d \in df : WellFormedKey(EntityKey(d))
        /\ \A r \in source_table :
               WellFormedKey(EntityKey(r)) => \E d \in df : EntityKey(d) = EntityKey(r)

----------------------------------------------------------------------------
(* Staging                                                                   *)

\* C14: after the staging step of a run, the staging table holds exactly
\* the rows that run selected; no row staged by an earlier run remains.
C14_StagingFullReplace ==
    improved_outcome = "success" => staging_appointments = SetToBag(improved_df)

----------------------------------------------------------------------------
(* Truncation                                                                *)

\* the limit of the long text columns
TextLimit == 2000

\* C15: a staged record whose description or comment is longer than 2000
\* characters is written with that column cut to its first 2000
\* characters, and a column within the limit is written unchanged.
C15_TruncationRecovery ==
    text_script # "none" =>
        \A c \in DOMAIN text_in :
            /\ text_in[c] > TextLimit => text_out[c] = TextLimit
            /\ text_in[c] <= TextLimit => text_out[c] = text_in[c]

\* C16: whenever a text column of a staged record is cut, the run logs a
\* warning.
C16_TruncationLogged ==
    text_script # "none" =>
        ( (\E c \in DOMAIN text_in : text_out[c] # text_in[c]) => text_warnings > 0 )

----------------------------------------------------------------------------
(* Row-level failure isolation                                               *)

\* the rows of the current file whose insert did not raise
RowsNotFailed == { <<imp_file, i>> : i \in (1..imp_rows) \ imp_failed }

\* C17: when the commit of a file has been done, the stage table holds
\* every row of the file except those whose insert failed, and the count
\* reported for the file is the number of rows inserted.
C17_RowFailureIsolation ==
    imp_pc = "archiving" =>
        /\ imp_committed = RowsNotFailed
        /\ imp_reported[Len(imp_reported)] = <<imp_file, Cardinality(imp_committed)>>

\* a file is committed whose first row failed and whose second row was
\* inserted after that
C17_Witness ==
    /\ imp_pc = "archiving"
    /\ imp_failed = {1}
    /\ <<imp_file, 2>> \in imp_committed

\* C28: the error-handling path of a file commits no partial load: when its
\* commit changes the stage table, the table then holds the complete load of
\* the file (every row whose insert did not fail); otherwise the table keeps
\* its contents from before the file.
C28_NoPartialCommit ==
    [][ (imp_pc = "except" /\ imp_committed' # imp_committed) =>
            imp_committed' = { <<imp_file', i>> : i \in (1..imp_rows') \ imp_failed' }
      ]_vars

\* conn.commit() of a file with rows raised after the truncate and the
\* inserts, and the error-handling path has committed
C28_Witness ==
    /\ imp_pc = "next"
    /\ imp_file \in imp_errors
    /\ imp_rows > 0
    /\ imp_committed = RowsNotFailed
    /\ \A j \in DOMAIN imp_reported : imp_reported[j][1] # imp_file

----------------------------------------------------------------------------
(* Interleaving of runs                                                      *)

\* C18: with two runs on the same staging and target tables, a run always
\* merges exactly the batch it staged: no staging write of the other run
\* falls between its own staging write and its MERGE.
C18_NoInterleaving ==
    \A i \in DOMAIN run_pc :
        run_pc[i] = "merged" => run_merged[i] = run_frame[i]

----------------------------------------------------------------------------
(* Orchestrator                                                              *)

\* the ETL steps in their fixed order (first, fourth and last named)
StepsInOrder ==
    /\ Len(step_results) <= 12
    /\ \A i \in 1..Len(step_results) : step_results[i].name = build_steps[i]
    /\ Len(step_results) >= 1 => step_results[1].name = "Validate stage schema"
    /\ Len(step_results) >= 4 =>
           step_results[4].name = "Transform stage_raw -> tbl_stage_UG_Survey"
    /\ Len(step_results) >= 12 =>
           step_results[12].name = "ETL: ugs.tbl_ug_survey_stud_attr"

\* no step was run after a step that was not ok
NothingAfterFailure ==
    \A i \in 1..Len(step_results) : i < Len(step_results) => step_results[i].ok

\* the status returned is non-zero exactly when a step failed or the raw
\* file does not exist
StatusTellsFailure ==
    etl_pc = "returned" =>
        ( etl_rc # 0 <=>
            (~raw_exists \/ \E i \in 1..Len(step_results) : ~step_results[i].ok) )

\* the summary has one line per executed step, in order, with its name and status
SummaryNamesSteps ==
    /\ Len(etl_summary) = Len(step_results)
    /\ \A i \in 1..Len(step_results) :
          /\ etl_summary[i].name = step_results[i].name
          /\ etl_summary[i].step_status = "OK" <=> step_results[i].ok

----------------------------------------------------------------------------
(* Academic-year labels                                                      *)

\* number of rows of the labels table with the given term
RowsWithTerm(term) ==
    LET rows == { r \in BagToSet(labels_table) : r.term = term }
    IN  IF rows = {} THEN 0
        ELSE IF Cardinality(rows) > 1 THEN 2
        ELSE CopiesIn(CHOOSE r \in rows : TRUE, labels_table)

\* C20: after any sequence of runs over any stage contents, each term
\* value appears at most once in the labels table.
C20_LabelsInsertOnly ==
    \A r \in BagToSet(labels_table) : RowsWithTerm(r.term) <= 1

----------------------------------------------------------------------------
(* Settings *)

\* the text ${A}
PlaceholderA == <<"$", "{", "A", "}">>

\* the string t does not contain the character "$"
NoDollar(t) == \A i \in 1..Len(t) : t[i] # "$"

\* what the string before ${A} after becomes: the value of A when A is
\* set, the same string when it is not
Expected(before, after, environ) ==
    IF <<"A">> \in DOMAIN environ
    THEN before \o environ[<<"A">>] \o after
    ELSE before \o PlaceholderA \o after

\* C21: in a string, ${VAR} is replaced by the value of the environment
\* variable VAR and left as it is when VAR is not set; a string without
\* "$" and a non-string scalar are returned unchanged.
C21_ExpandEnvVars ==
    (expand # <<>> /\ expand.result # <<>>) =>
        LET value == expand.value
            result == expand.result[1]
        IN  /\ value.kind = "int" => result = value
            /\ (value.kind = "str" /\ NoDollar(value.v)) => result = value
            /\ value.kind = "str" =>
                   \A k \in 0..Len(value.v) :
                       LET before == SubSeq(value.v, 1, k)
                           after == SubSeq(value.v, k + 5, Len(value.v))
                       IN  ( /\ k + 4 <= Len(value.v)
                             /\ SubSeq(value.v, k + 1, k + 4) = PlaceholderA
                             /\ NoDollar(before) /\ NoDollar(after) )
                           => result = PyStr(Expected(before, after, expand.environ))

----------------------------------------------------------------------------
(* Truncate-and-reload loaders *)

\* C22: a call with dry_run=True leaves the target table as it was, for
\* every stage content.
C22_DryRunNoWrite ==
    (load.outcome = "returned" /\ load.dry_run) => load.target = load.before

\* a dry run over a stage with output rows and a target table with rows
C22_Witness ==
    /\ load.outcome = "returned" /\ load.dry_run
    /\ \E r \in load.stage : r.kept
    /\ load.before # EmptyBag
    /\ load.loader = "intern"

\* C24: when the bulk insert raises after the truncate, the target table is
\* in its pre-run state.
C24_FailureLeavesTarget ==
    load.outcome = "raised" => load.target = load.before

\* C29: after a successful non-dry run with truncate_before_load=True of
\* intern, intern_lrned, intl_exp or empl_job_lrned, the target table holds
\* exactly the rows the transform yields from the stage, each once; also
\* when there are none.
C29_FullRefresh ==
    ( /\ load.outcome = "returned" /\ ~load.dry_run /\ load.truncate_before_load
      /\ load.loader \in {"intern", "intern_lrned", "intl_exp", "empl_job_lrned"} )
    => /\ BagToSet(load.target) = { r.key : r \in { q \in load.stage : q.kept } }
       /\ \A k \in BagToSet(load.target) : CopiesIn(k, load.target) = 1

----------------------------------------------------------------------------
(* Command line *)

\* the files on disk that the --raw-file argument names: the file itself for
\* a path, every file of the directory with the prefix for a pattern
NamedByRawFile ==
    { f \in cli.files : /\ f.dir = cli.raw_file.dir
                        /\ f.prefix = cli.raw_file.prefix
                        /\ (cli.raw_file.n = 0 \/ f.n = cli.raw_file.n) }

\* C23: when the ETL has gone through every file without a failure (exit
\* status 0), the files processed are the files named by --raw-file: the
\* one file of a path, all files matching a pattern.
C23_RawFileProcessed ==
    cli.rc = 0 => cli.processed = NamedByRawFile

----------------------------------------------------------------------------
(* Internship unpivot *)

\* the source fields of a slot that the claim lists
SlotSourceFields ==
    {"organization", "title", "unit", "paid", "paid_amt", "country", "state",
     "province", "college_credit", "semesters"}

\* the stage column intern_<field><i> of the row holds a text that is not
\* blank
NonEmptyInStage(field, i) ==
    LET x == unpivot.row[<<"intern_", field, DecimalDigits[i + 1]>>]
    IN  x.kind = "str" /\ \E k \in 1..Len(x.v) : x.v[k] # " "

\* C25: for a stage row with intern_count = c > 0 a row with intern_numb = i
\* is emitted if and only if i <= c and at least one source field of slot i
\* is non-empty.
C25_InternUnpivot ==
    (unpivot.out # <<>> /\ unpivot.count > 0) =>
        \A i \in 1..3 :
            i \in unpivot.out[1]
            <=> (i <= unpivot.count /\ \E field \in SlotSourceFields : NonEmptyInStage(field, i))

----------------------------------------------------------------------------
(* Stored fingerprint, completeness                                          *)

\* a stored column as CONCAT reads it
StoredText(v) == IF v = "<NULL>" THEN "" ELSE v

\* the fingerprint function applied to the stored fields of a target row
StoredFingerprint(t) ==
    <<"SHA2_256", StoredText(t.appointment_ext_id)
                  \o StoredText(t.participant_integration_id)
                  \o StoredText(t.appointment_type)>>

\* C27: after any sequence of runs every target row's Hash_DW is the
\* fingerprint of the fields stored in that row, also for rows whose source
\* values were the string 'None'.
C27_StoredFingerprint ==
    \A t \in TargetRows : t.Hash_DW = StoredFingerprint(t)

\* C30: when a run commits, for every staged record the target then holds a
\* row of its entity key whose File_Created_On is not lower than the
\* record's (the batch's maximum for the key), a NULL File_Created_On
\* counting as lower than every timestamp.
C30_Completeness ==
    [][ MergeCommits =>
          \A s \in staging_table :
              \E t \in BagToSet(final_table') :
                  /\ EntityKey(t) = EntityKey(s)
                  /\ ~Lower(t.File_Created_On, s.File_Created_On) ]_vars

----------------------------------------------------------------------------
(* Order of runs                                                             *)

\* C26: for any target table and any two staged batches A and B, the run
\* for A followed by the run for B leaves the same target table as the run
\* for B followed by the run for A.
C26_OrderIndependence ==
    (order.AB # <<>> /\ order.BA # <<>>) => order.AB = order.BA

====
